---- MODULE Spec2Model ----
(***************************************************************************)
(* State-machine model of the games backend: the Express routes of the     *)
(* server (index.js) and the feed fetcher utils/fetch_aggregated_top_games *)
(* .js.  Every promise callback of the source is one atomic step, as the   *)
(* JavaScript event loop runs it; the remote feeds and the Sequelize store *)
(* settle the promises they return at arbitrary later steps.               *)
(***************************************************************************)
EXTENDS Integers, Sequences, FiniteSets, TLC

\* ------------------------------------------------------------------ bounds

\* Number of HTTP requests the server receives in one behaviour.
NumRequests == 2
\* Feed fetcher inputs of FlattenSpec: at most this many groups ...
MaxGroups == 3
\* ... of at most this many elements each.
MaxGroupLen == 2

Reqs == 1..NumRequests
Platforms == {"ios", "android"}

\* ----------------------------------------------------------------- helpers

\* Sequences over S of length at most n.
SeqsUpTo(S, n) == UNION {[1..k -> S] : k \in 0..n}

\* JavaScript truthiness of a string-valued property: absent (undefined)
\* and the empty string are falsy.
Truthy(obj, key) == key \in DOMAIN obj /\ obj[key] # ""

\* ------------------------------------------------------ feed fetcher (pure)

\* Array.prototype.concat with an array argument appends its elements.
JsConcat_Prepend(acc, group) == group \o acc

JsConcat(acc, group) == acc \o group

\* data.reduce((acc, group) => acc.concat(group), [])
RECURSIVE Reduce(_, _)
Reduce(data, acc) ==
    IF data = <<>> THEN acc ELSE Reduce(Tail(data), JsConcat(acc, Head(data)))

\* The promise fetchAggregatedTopGames(url) settles to, given the remote
\* response: rejected on a network failure, on a non-ok status, on a body that
\* is not JSON and on a body that is not an array; otherwise resolved with the
\* flattened body.  (The .catch logs and rethrows.)
FetchAggregatedTopGames(response) ==
    IF response.kind = "network_error"
      THEN [state |-> "rejected", value |-> <<>>]
    ELSE IF ~response.ok
      THEN [state |-> "rejected", value |-> <<>>]
    ELSE IF ~response.isJson
      THEN [state |-> "rejected", value |-> <<>>]
    ELSE IF ~response.isArray
      THEN [state |-> "rejected", value |-> <<>>]
    ELSE [state |-> "resolved", value |-> Reduce(response.data, <<>>)]

\* Remote responses: response.ok is true for the statuses 200..299; the body
\* is an array of groups (data), some other JSON value, or not JSON at all.
HttpResponse(st, data) ==
    [kind |-> "http", ok |-> (st >= 200 /\ st <= 299), status |-> st,
     isJson |-> TRUE, isArray |-> TRUE, data |-> data]
NotArrayResponse ==
    [kind |-> "http", ok |-> TRUE, status |-> 200, isJson |-> TRUE,
     isArray |-> FALSE, data |-> <<>>]
InvalidJsonResponse ==
    [kind |-> "http", ok |-> TRUE, status |-> 200, isJson |-> FALSE,
     isArray |-> FALSE, data |-> <<>>]
NetworkError ==
    [kind |-> "network_error", ok |-> FALSE, status |-> 0, isJson |-> FALSE,
     isArray |-> FALSE, data |-> <<>>]

\* ------------------------------------------------------------- feed records

\* RawGameRecord samples; a property the feed leaves out is a missing field.
RecA == [publisher_id |-> "p1", name |-> "G1", os |-> "ios", app_id |-> 12,
         bundle_id |-> "a", version |-> "1.0"]
RecB == [publisher_id |-> "p2", name |-> "G2", os |-> "android", app_id |-> 7,
         bundle_id |-> "b"]
RecNoAppId == [publisher_id |-> "p2", name |-> "G2", os |-> "android",
               bundle_id |-> "b", version |-> "2.1"]
RecNoBundle == [publisher_id |-> "p3", name |-> "G3", os |-> "tvos"]
RecEmptyBundle == [publisher_id |-> "p4", name |-> "G4", os |-> "ios", app_id |-> 305,
                   bundle_id |-> "", version |-> ""]

RawGameRecords == {RecA, RecB, RecNoAppId, RecNoBundle, RecEmptyBundle}

\* Feed bodies of the population runs: no group, one empty group, or groups
\* of one record each; two groups for the iOS feed, one for the Android feed
\* (enough for duplicates inside a feed and across the feeds).
FeedGroups == {<<g>> : g \in RawGameRecords}
ShortBodies == {<<>>, << <<>> >>} \cup {<<g>> : g \in FeedGroups}
FeedBodies(p) ==
    IF p = "ios"
      THEN ShortBodies \cup {<<g, h>> : g \in FeedGroups, h \in FeedGroups}
      ELSE ShortBodies
FeedResponses(p) ==
    {HttpResponse(200, d) : d \in FeedBodies(p)}
      \cup {HttpResponse(404, <<>>), NotArrayResponse, InvalidJsonResponse, NetworkError}
Feeds == {f \in [Platforms -> FeedResponses("ios")] : f["android"] \in FeedResponses("android")}

\* ------------------------------------------------------------ dedup (pure)

Digits == <<"0", "1", "2", "3", "4", "5", "6", "7", "8", "9">>

\* Number.prototype.toString() of a non-negative integer.
RECURSIVE NumberToString(_)
NumberToString(n) ==
    IF n < 10 THEN Digits[n + 1] ELSE NumberToString(n \div 10) \o Digits[(n % 10) + 1]

\* game.bundle_id && !existingBundleIds.has(game.bundle_id)
KeepGame_IgnoreExisting(game, existing) == Truthy(game, "bundle_id")

KeepGame_IgnoreEmpty(game, existing) ==
    "bundle_id" \in DOMAIN game /\ game.bundle_id \notin existing

KeepGame(game, existing) ==
    Truthy(game, "bundle_id") /\ game.bundle_id \notin existing

\* game.app_id.toString() throws a TypeError when app_id is undefined.
MapThrows(game) == "app_id" \notin DOMAIN game

\* The entity the .map callback builds from one kept record.
ToGameEntity(game) ==
    [publisherId |-> game.publisher_id,
     name |-> game.name,
     platform |-> IF "os" \in DOMAIN game /\ game.os = "ios" THEN "ios" ELSE "android",
     storeId |-> NumberToString(game.app_id),
     bundleId |-> game.bundle_id,
     appVersion |-> IF Truthy(game, "version") THEN game.version ELSE "",
     isPublished |-> TRUE]

\* topGames.filter(...)
FilterNew(games, existing) == SelectSeq(games, LAMBDA g : KeepGame(g, existing))

\* First-seen-wins de-duplication inside the batch (what the code does not do).
RECURSIVE DistinctByBundle(_, _)
DistinctByBundle(games, seen) ==
    IF games = <<>> THEN <<>>
    ELSE IF Head(games).bundle_id \in seen THEN DistinctByBundle(Tail(games), seen)
    ELSE <<Head(games)>> \o
           DistinctByBundle(Tail(games), seen \cup {Head(games).bundle_id})

NewGames_DedupBatch(games, existing) ==
    LET kept == DistinctByBundle(FilterNew(games, existing), {})
    IN  [i \in 1..Len(kept) |-> ToGameEntity(kept[i])]

\* topGames.filter(...).map(...), when no callback throws.
NewGames(games, existing) ==
    LET kept == FilterNew(games, existing)
    IN  [i \in 1..Len(kept) |-> ToGameEntity(kept[i])]

\* Whether topGames.filter(...).map(...) throws.
NewGamesThrows(games, existing) ==
    \E i \in 1..Len(FilterNew(games, existing)) : MapThrows(FilterNew(games, existing)[i])

\* newGames.length === 0
NothingToAdd_AtMostOne(entities) == Len(entities) <= 1

NothingToAdd(entities) == Len(entities) = 0

\* ------------------------------------------------------------------- store

\* The where clause of the lookup: topGames.map((game) => game.bundle_id);
\* an undefined element becomes NULL, which IN never matches.
RequestedBundleIds(games) ==
    {games[i].bundle_id : i \in {j \in 1..Len(games) : "bundle_id" \in DOMAIN games[j]}}

\* db.Game.findAll({ attributes: ['bundleId'], where: { bundleId: [...] } })
FindAllByBundleId(rows, ids) ==
    LET matching == SelectSeq(rows, LAMBDA row : row.bundleId \in ids)
    IN  [i \in 1..Len(matching) |-> [bundleId |-> matching[i].bundleId]]

\* new Set(existingGames.map((g) => g.bundleId))
BundleIdSet_WrongKey(existingGames) == {}

BundleIdSet(existingGames) == {existingGames[i].bundleId : i \in 1..Len(existingGames)}

\* A persisted row: the entity, its autoincrement primary key, and (history)
\* the request that inserted it, 0 for rows that predate the behaviour.
Row(entity, id, by) == entity @@ [id |-> id, by |-> by]

\* db.Game.bulkCreate(newGames): one multi-row INSERT.
BulkCreate(rows, entities, firstId, by) ==
    rows \o [i \in 1..Len(entities) |-> Row(entities[i], firstId + i - 1, by)]

EntityA == ToGameEntity(RecA)
EntityB == ToGameEntity(RecB)

\* The table before the first request: empty, or holding the game "b".
InitialStores == {<<>>, <<Row(EntityB, 1, 0)>>}

\* -------------------------------------------------------------- environment

\* process.env after dotenv: each URL is unset, empty or set.
Envs ==
    UNION {[keys -> {"", "https://feed.example/top.json"}] :
             keys \in SUBSET {"JSON_URL_IOS", "JSON_URL_ANDROID"}}

\* !iosUrl || !androidUrl
MissingUrl_Both(e) == ~Truthy(e, "JSON_URL_IOS") /\ ~Truthy(e, "JSON_URL_ANDROID")

MissingUrl(e) == ~Truthy(e, "JSON_URL_IOS") \/ ~Truthy(e, "JSON_URL_ANDROID")

\* ---------------------------------------------------------------- responses

NoResponse == [pending |-> TRUE]
ConfigError == [error |-> "Missing IOS_JSON_URL or ANDROID_JSON_URL in .env"]
PopulateFailed == [error |-> "Failed to populate database"]
NoNewGames == [message |-> "No new games to add."]
NoData == [message |-> "No new games to add (no data available)."]
Added(n) == [added |-> n]

\* -------------------------------------------------------------------- state

VARIABLES
    env,                \* process.env (JSON_URL_IOS, JSON_URL_ANDROID)
    feed,               \* what each remote feed answers: Platforms -> response
    store,              \* the Game table: sequence of rows, in insertion order
    nextId,             \* next autoincrement primary key
    route,              \* per request: the route that handles it ("none" before it arrives)
    pc,                 \* per request: the pending promise of its handler, or "done"
    reqIn,              \* per request: req.params / req.body of a CRUD request
    found,              \* per request: what findByPk resolved to (row id, 0 for null)
    status, body,       \* per request: the response sent (res.status(..).send(..))
    nresp,              \* per request: number of responses sent
    fetchState,         \* per request: Platforms -> idle | pending | resolved | rejected
    fetchValue,         \* per request: Platforms -> the array a fetch resolved with
    settleOrder,        \* per request, while it is in flight: the platforms whose
                        \* fetch has settled, in the order they did
    topGames,           \* per request: iosGames.concat(androidGames)
    existingBundleIds,  \* per request: the Set built from the lookup's rows
    newGames,           \* per request: the entities the filter/map emitted
    netCalls, lookups, inserts,   \* per request: fetch / findAll / bulkCreate calls issued
    lookupOk, insertOk, \* per request: "none" | "ok" | "failed", outcome of the store call
    doneBefore,         \* history: the requests already answered when this one arrived
    insertedBefore,     \* history: the requests whose insert preceded this lookup
    call                \* a stand-alone call of fetchAggregatedTopGames (FlattenSpec)

storeVars == <<store, nextId>>
respVars == <<status, body, nresp, settleOrder>>
fetchVars == <<fetchState, fetchValue, netCalls>>
dedupVars == <<topGames, existingBundleIds, newGames, lookups, inserts, lookupOk,
               insertOk, insertedBefore>>
crudVars == <<reqIn, found>>
vars == <<env, feed, storeVars, route, pc, doneBefore, respVars, fetchVars, dedupVars,
          crudVars, call>>

IdleCall == [response |-> NetworkError, state |-> "idle", value |-> <<>>]

InitRequests ==
    /\ route = [r \in Reqs |-> "none"]
    /\ pc = [r \in Reqs |-> "idle"]
    /\ reqIn = [r \in Reqs |-> [none |-> TRUE]]
    /\ found = [r \in Reqs |-> 0]
    /\ status = [r \in Reqs |-> 0]
    /\ body = [r \in Reqs |-> NoResponse]
    /\ nresp = [r \in Reqs |-> 0]
    /\ fetchState = [r \in Reqs |-> [p \in Platforms |-> "idle"]]
    /\ fetchValue = [r \in Reqs |-> [p \in Platforms |-> <<>>]]
    /\ settleOrder = [r \in Reqs |-> <<>>]
    /\ topGames = [r \in Reqs |-> <<>>]
    /\ existingBundleIds = [r \in Reqs |-> {}]
    /\ newGames = [r \in Reqs |-> <<>>]
    /\ netCalls = [r \in Reqs |-> 0]
    /\ lookups = [r \in Reqs |-> 0]
    /\ inserts = [r \in Reqs |-> 0]
    /\ lookupOk = [r \in Reqs |-> "none"]
    /\ insertOk = [r \in Reqs |-> "none"]
    /\ doneBefore = [r \in Reqs |-> {}]
    /\ insertedBefore = [r \in Reqs |-> {}]

Init ==
    /\ env \in Envs
    /\ feed \in Feeds
    /\ store \in InitialStores
    /\ nextId = Len(store) + 1
    /\ InitRequests
    /\ call = IdleCall

\* res.status(st).send(b): the request is answered and its handler is finished.
Respond(r, st, b) ==
    /\ status' = [status EXCEPT ![r] = st]
    /\ body' = [body EXCEPT ![r] = b]
    /\ nresp' = [nresp EXCEPT ![r] = @ + 1]
    /\ settleOrder' = [settleOrder EXCEPT ![r] = <<>>]
    /\ pc' = [pc EXCEPT ![r] = "done"]

\* Requests are numbered in the order the server receives them.
Arrives(r) == pc[r] = "idle" /\ \A q \in Reqs : q < r => pc[q] # "idle"

\* --------------------------------------------------- POST /api/games/populate

\* Promise.all: rejected as soon as one input rejects, resolved once all have.
PromiseAllState_AllSettled(fs) ==
    IF \E p \in Platforms : fs[p] = "pending" THEN "pending" ELSE "resolved"

PromiseAllState(fs) ==
    IF \E p \in Platforms : fs[p] = "rejected" THEN "rejected"
    ELSE IF \A p \in Platforms : fs[p] = "resolved" THEN "resolved"
    ELSE "pending"

\* Promise.all resolves with the values in the order of its input array:
\* [iosGames, androidGames].
PromiseAllValues_SettleOrder(fv, order) == <<fv[order[1]], fv[order[2]]>>

PromiseAllValues(fv, order) == <<fv["ios"], fv["android"]>>

\* !topGames: an array, even an empty one, is truthy.
ArrayIsFalsy(games) == FALSE

\* The handler up to the Promise.all call: the configuration check, then both
\* fetches dispatched.
PopulateHandler(r) ==
    /\ Arrives(r)
    /\ route' = [route EXCEPT ![r] = "populate"]
    /\ doneBefore' = [doneBefore EXCEPT ![r] = {q \in Reqs : pc[q] = "done"}]
    /\ IF MissingUrl(env)
         THEN /\ Respond(r, 500, ConfigError)
              /\ UNCHANGED fetchVars
         ELSE /\ fetchState' = [fetchState EXCEPT ![r] = [p \in Platforms |-> "pending"]]
              /\ netCalls' = [netCalls EXCEPT ![r] = @ + 2]
              /\ pc' = [pc EXCEPT ![r] = "fetching"]
              /\ UNCHANGED <<fetchValue, respVars>>
    /\ UNCHANGED <<env, feed, storeVars, dedupVars, crudVars, call>>

\* One fetchAggregatedTopGames promise settles; when that settles Promise.all,
\* its .then callback (concat, then the lookup is issued) or the .catch of the
\* handler runs.
FetchSettles(r, p) ==
    /\ fetchState[r][p] = "pending"
    /\ LET out == FetchAggregatedTopGames(feed[p])
           fs == [fetchState[r] EXCEPT ![p] = out.state]
           fv == [fetchValue[r] EXCEPT ![p] = out.value]
           order == Append(settleOrder[r], p)
           all == PromiseAllState(fs)
           values == PromiseAllValues(fv, order)
       IN /\ fetchState' = [fetchState EXCEPT ![r] = fs]
          /\ fetchValue' = [fetchValue EXCEPT ![r] = fv]
          /\ IF pc[r] = "fetching" /\ all = "rejected"
               THEN /\ Respond(r, 500, PopulateFailed)
                    /\ UNCHANGED <<topGames, lookups>>
             ELSE IF pc[r] = "fetching" /\ all = "resolved"
               THEN /\ topGames' = [topGames EXCEPT ![r] = JsConcat(values[1], values[2])]
                    /\ IF ArrayIsFalsy(topGames'[r])
                         THEN /\ Respond(r, 200, NoData)
                              /\ UNCHANGED lookups
                         ELSE /\ lookups' = [lookups EXCEPT ![r] = @ + 1]
                              /\ pc' = [pc EXCEPT ![r] = "lookup"]
                              /\ settleOrder' = [settleOrder EXCEPT ![r] = order]
                              /\ UNCHANGED <<status, body, nresp>>
             ELSE IF pc[r] = "fetching"
               THEN /\ settleOrder' = [settleOrder EXCEPT ![r] = order]
                    /\ UNCHANGED <<topGames, lookups, pc, status, body, nresp>>
             ELSE UNCHANGED <<topGames, lookups, pc, respVars>>
    /\ UNCHANGED <<env, feed, storeVars, route, doneBefore, netCalls, existingBundleIds,
                   newGames, inserts, lookupOk, insertOk, insertedBefore,
                   crudVars, call>>

\* The existing-key lookup resolves: the .then callback filters and maps, then
\* answers 200 or issues the batch insert; a throwing .map lands in the .catch.
LookupResolves(r) ==
    /\ pc[r] = "lookup"
    /\ LET existingGames == FindAllByBundleId(store, RequestedBundleIds(topGames[r]))
           existing == BundleIdSet(existingGames)
       IN /\ existingBundleIds' = [existingBundleIds EXCEPT ![r] = existing]
          /\ lookupOk' = [lookupOk EXCEPT ![r] = "ok"]
          /\ insertedBefore' =
               [insertedBefore EXCEPT ![r] = {q \in Reqs : insertOk[q] = "ok"}]
          /\ IF NewGamesThrows(topGames[r], existing)
               THEN /\ Respond(r, 500, PopulateFailed)
                    /\ UNCHANGED <<newGames, inserts>>
             ELSE /\ newGames' = [newGames EXCEPT ![r] = NewGames(topGames[r], existing)]
                  /\ IF NothingToAdd(newGames'[r])
                       THEN /\ Respond(r, 200, NoNewGames)
                            /\ UNCHANGED inserts
                       ELSE /\ inserts' = [inserts EXCEPT ![r] = @ + 1]
                            /\ pc' = [pc EXCEPT ![r] = "insert"]
                            /\ UNCHANGED respVars
    /\ UNCHANGED <<env, feed, storeVars, route, doneBefore, fetchVars, topGames, lookups,
                   insertOk, crudVars, call>>

\* The existing-key lookup rejects: the .catch of the handler answers 500.
LookupRejects(r) ==
    /\ pc[r] = "lookup"
    /\ lookupOk' = [lookupOk EXCEPT ![r] = "failed"]
    /\ Respond(r, 500, PopulateFailed)
    /\ UNCHANGED <<env, feed, storeVars, route, doneBefore, fetchVars, topGames,
                   existingBundleIds, newGames, lookups, inserts, insertOk, insertedBefore, crudVars, call>>

\* The batch insert resolves: the rows are in the table, 201 is answered.
BulkCreateResolves(r) ==
    /\ pc[r] = "insert"
    /\ store' = BulkCreate(store, newGames[r], nextId, r)
    /\ nextId' = nextId + Len(newGames[r])
    /\ insertOk' = [insertOk EXCEPT ![r] = "ok"]
    /\ Respond(r, 201, Added(Len(newGames[r])))
    /\ UNCHANGED <<env, feed, route, doneBefore, fetchVars, topGames, existingBundleIds,
                   newGames, lookups, inserts, lookupOk, insertedBefore,
                   crudVars, call>>

\* The batch insert rejects: nothing is written, the .catch answers 500.
BulkCreateRejects(r) ==
    /\ pc[r] = "insert"
    /\ insertOk' = [insertOk EXCEPT ![r] = "failed"]
    /\ Respond(r, 500, PopulateFailed)
    /\ UNCHANGED <<env, feed, storeVars, route, doneBefore, fetchVars, topGames,
                   existingBundleIds, newGames, lookups, inserts, lookupOk, insertedBefore, crudVars, call>>

\* ------------------------------------------------------------- CRUD routes

\* Strings a route parses or normalises are sequences of one-character strings.
IsDigit(c) == c \in {"0", "1", "2", "3", "4", "5", "6", "7", "8", "9"}
DigitValue(c) == CHOOSE d \in 0..9 : Digits[d + 1] = c

RECURSIVE TrimStart(_)
TrimStart(cs) == IF cs # <<>> /\ Head(cs) = " " THEN TrimStart(Tail(cs)) ELSE cs

RECURSIVE TrimEnd(_)
TrimEnd(cs) ==
    IF cs # <<>> /\ cs[Len(cs)] = " " THEN TrimEnd(SubSeq(cs, 1, Len(cs) - 1)) ELSE cs

\* String.prototype.trim()
Trim(cs) == TrimEnd(TrimStart(cs))

LowerChar(c) ==
    CASE c = "A" -> "a" [] c = "D" -> "d" [] c = "G" -> "g" [] c = "I" -> "i"
      [] c = "N" -> "n" [] c = "O" -> "o" [] c = "R" -> "r" [] c = "S" -> "s"
      [] OTHER -> c

\* String.prototype.toLowerCase()
ToLowerCase(cs) == [i \in 1..Len(cs) |-> LowerChar(cs[i])]

RECURSIVE DigitsValue(_, _)
DigitsValue(cs, acc) ==
    IF cs = <<>> \/ ~IsDigit(Head(cs)) THEN acc
    ELSE DigitsValue(Tail(cs), 10 * acc + DigitValue(Head(cs)))

\* parseInt(s): leading whitespace skipped, then the longest run of digits;
\* NaN when there is none.
ParseInt(cs) ==
    LET t == TrimStart(cs)
    IN IF t = <<>> \/ ~IsDigit(Head(t)) THEN [nan |-> TRUE, value |-> 0]
       ELSE [nan |-> FALSE, value |-> DigitsValue(t, 0)]

\* (x || '').trim().toLowerCase() of a request property
Normalize(obj, key) == IF key \in DOMAIN obj THEN ToLowerCase(Trim(obj[key])) ELSE <<>>

RECURSIVE Join(_)
Join(cs) == IF cs = <<>> THEN "" ELSE Head(cs) \o Join(Tail(cs))

\* The characters of the game names the model stores.
NameChars(name) ==
    CASE name = "G1" -> <<"G", "1">> [] name = "G2" -> <<"G", "2">>
      [] name = "G3" -> <<"G", "3">> [] OTHER -> <<"G", "4">>

Contains(cs, sub) ==
    \E i \in 0..(Len(cs) - Len(sub)) : SubSeq(cs, i + 1, i + Len(sub)) = sub

\* name LIKE '%name%' (SQLite compares ASCII letters case-insensitively)
Like(name, pattern) == Contains(ToLowerCase(NameChars(name)), ToLowerCase(pattern))

\* The where clause the search route builds from the normalised inputs.
SearchWhere(platform, name) ==
    [hasPlatform |-> platform # <<>>, platform |-> Join(platform),
     hasName |-> name # <<>>, name |-> name]

\* db.Game.findAll({ where })
FindAllWhere(rows, where) ==
    SelectSeq(rows, LAMBDA row :
        /\ where.hasPlatform => row.platform = where.platform
        /\ where.hasName => Like(row.name, where.name))

\* db.Game.findByPk(id): the id of the row found, 0 for null.
FindByPk(rows, id) ==
    IF ~id.nan /\ \E i \in 1..Len(rows) : rows[i].id = id.value THEN id.value ELSE 0

\* game.destroy({ force: true })
Destroy(rows, id) == SelectSeq(rows, LAMBDA row : row.id # id)

\* game.update({ ... })
Update(rows, id, fields) ==
    [i \in 1..Len(rows) |->
        IF rows[i].id = id THEN Row(fields, id, rows[i].by) ELSE rows[i]]

\* Request inputs.
GameBodies == {EntityA, EntityB}
IdParams == {<<"1">>, <<"2", "x">>, <<"9">>, <<"x">>}
PlatformInputs == {<<>>, <<" ", "I", "O", "S">>, <<"a", "n", "d", "r", "o", "i", "d">>}
NameInputs == {<<" ">>, <<"g">>}
SearchBodies ==
    {[k \in {} |-> <<>>]}
      \cup {[platform |-> pl] : pl \in PlatformInputs}
      \cup {[name |-> n] : n \in NameInputs}
      \cup {[platform |-> pl, name |-> n] : pl \in PlatformInputs, n \in NameInputs}

SequelizeError == [name |-> "SequelizeDatabaseError"]

\* Everything a CRUD step leaves alone.
PopulateUnchanged == UNCHANGED <<env, feed, doneBefore, fetchVars, dedupVars, settleOrder, call>>

\* GET /api/games
ListHandler(r) ==
    /\ Arrives(r)
    /\ route' = [route EXCEPT ![r] = "list"]
    /\ pc' = [pc EXCEPT ![r] = "findAll"]
    /\ UNCHANGED <<storeVars, crudVars, status, body, nresp>>
    /\ PopulateUnchanged

ListResolves(r) ==
    /\ route[r] = "list" /\ pc[r] = "findAll"
    /\ Respond(r, 200, [games |-> store])
    /\ UNCHANGED <<storeVars, route, crudVars>>
    /\ UNCHANGED <<env, feed, doneBefore, fetchVars, dedupVars, call>>

\* .catch: res.send(err), with the default status.
ListRejects(r) ==
    /\ route[r] = "list" /\ pc[r] = "findAll"
    /\ Respond(r, 200, SequelizeError)
    /\ UNCHANGED <<storeVars, route, crudVars>>
    /\ UNCHANGED <<env, feed, doneBefore, fetchVars, dedupVars, call>>

\* POST /api/games
CreateHandler(r, fields) ==
    /\ Arrives(r)
    /\ route' = [route EXCEPT ![r] = "create"]
    /\ reqIn' = [reqIn EXCEPT ![r] = [body |-> fields]]
    /\ pc' = [pc EXCEPT ![r] = "create"]
    /\ UNCHANGED <<storeVars, found, status, body, nresp>>
    /\ PopulateUnchanged

CreateResolves(r) ==
    /\ pc[r] = "create"
    /\ store' = Append(store, Row(reqIn[r].body, nextId, r))
    /\ nextId' = nextId + 1
    /\ Respond(r, 200, [game |-> Row(reqIn[r].body, nextId, r)])
    /\ UNCHANGED <<route, crudVars>>
    /\ UNCHANGED <<env, feed, doneBefore, fetchVars, dedupVars, call>>

CreateRejects(r) ==
    /\ pc[r] = "create"
    /\ Respond(r, 400, SequelizeError)
    /\ UNCHANGED <<storeVars, route, crudVars>>
    /\ UNCHANGED <<env, feed, doneBefore, fetchVars, dedupVars, call>>

\* DELETE /api/games/:id and PUT /api/games/:id up to the findByPk call.
ByIdHandler(r, rt, param, fields) ==
    /\ Arrives(r)
    /\ route' = [route EXCEPT ![r] = rt]
    /\ reqIn' = [reqIn EXCEPT ![r] = [id |-> ParseInt(param), body |-> fields]]
    /\ pc' = [pc EXCEPT ![r] = "findByPk"]
    /\ UNCHANGED <<storeVars, found, status, body, nresp>>
    /\ PopulateUnchanged

\* DELETE: findByPk resolves; .then calls game.destroy, which throws a
\* TypeError on null, caught by the .catch of the chain.
DeleteFindResolves(r) ==
    /\ route[r] = "delete" /\ pc[r] = "findByPk"
    /\ LET game == FindByPk(store, reqIn[r].id)
       IN /\ found' = [found EXCEPT ![r] = game]
          /\ IF game = 0
               THEN Respond(r, 400, [name |-> "TypeError"])
               ELSE /\ pc' = [pc EXCEPT ![r] = "destroy"]
                    /\ UNCHANGED <<status, body, nresp, settleOrder>>
    /\ UNCHANGED <<storeVars, route, reqIn>>
    /\ UNCHANGED <<env, feed, doneBefore, fetchVars, dedupVars, call>>

\* DELETE: findByPk or destroy rejects.
DeleteRejects(r) ==
    /\ route[r] = "delete" /\ pc[r] \in {"findByPk", "destroy"}
    /\ Respond(r, 400, SequelizeError)
    /\ UNCHANGED <<storeVars, route, crudVars>>
    /\ UNCHANGED <<env, feed, doneBefore, fetchVars, dedupVars, call>>

DestroyResolves(r) ==
    /\ route[r] = "delete" /\ pc[r] = "destroy"
    /\ store' = Destroy(store, found[r])
    /\ Respond(r, 200, [id |-> reqIn[r].id.value])
    /\ UNCHANGED <<nextId, route, crudVars>>
    /\ UNCHANGED <<env, feed, doneBefore, fetchVars, dedupVars, call>>

\* PUT: findByPk resolves; .then calls game.update, which throws a TypeError
\* on null.  The chain has no .catch after this .then: the rejection is
\* unhandled and no response is sent.
UpdateFindResolves(r) ==
    /\ route[r] = "update" /\ pc[r] = "findByPk"
    /\ LET game == FindByPk(store, reqIn[r].id)
       IN /\ found' = [found EXCEPT ![r] = game]
          /\ pc' = [pc EXCEPT ![r] = IF game = 0 THEN "done" ELSE "update"]
    /\ UNCHANGED <<storeVars, route, reqIn, status, body, nresp>>
    /\ PopulateUnchanged

\* PUT: findByPk rejects; nothing handles the rejection.
UpdateFindRejects(r) ==
    /\ route[r] = "update" /\ pc[r] = "findByPk"
    /\ pc' = [pc EXCEPT ![r] = "done"]
    /\ UNCHANGED <<storeVars, route, crudVars, status, body, nresp>>
    /\ PopulateUnchanged

UpdateResolves(r) ==
    /\ pc[r] = "update"
    /\ store' = Update(store, found[r], reqIn[r].body)
    /\ Respond(r, 200, [game |-> reqIn[r].body @@ [id |-> found[r]]])
    /\ UNCHANGED <<nextId, route, crudVars>>
    /\ UNCHANGED <<env, feed, doneBefore, fetchVars, dedupVars, call>>

UpdateRejects(r) ==
    /\ pc[r] = "update"
    /\ Respond(r, 400, SequelizeError)
    /\ UNCHANGED <<storeVars, route, crudVars>>
    /\ UNCHANGED <<env, feed, doneBefore, fetchVars, dedupVars, call>>

\* POST /api/games/search
SearchHandler(r, input) ==
    /\ Arrives(r)
    /\ route' = [route EXCEPT ![r] = "search"]
    /\ LET platform == Normalize(input, "platform")
           name == Normalize(input, "name")
       IN IF name # <<>> /\ platform = <<>>
            THEN /\ Respond(r, 400, [error |-> "Platform is required when name is provided"])
                 /\ UNCHANGED reqIn
            ELSE /\ reqIn' = [reqIn EXCEPT ![r] = [where |-> SearchWhere(platform, name)]]
                 /\ pc' = [pc EXCEPT ![r] = "findAll"]
                 /\ UNCHANGED <<status, body, nresp, settleOrder>>
    /\ UNCHANGED <<storeVars, found>>
    /\ UNCHANGED <<env, feed, doneBefore, fetchVars, dedupVars, call>>

SearchResolves(r) ==
    /\ route[r] = "search" /\ pc[r] = "findAll"
    /\ Respond(r, 200, [games |-> FindAllWhere(store, reqIn[r].where)])
    /\ UNCHANGED <<storeVars, route, crudVars>>
    /\ UNCHANGED <<env, feed, doneBefore, fetchVars, dedupVars, call>>

SearchRejects(r) ==
    /\ route[r] = "search" /\ pc[r] = "findAll"
    /\ Respond(r, 400, SequelizeError)
    /\ UNCHANGED <<storeVars, route, crudVars>>
    /\ UNCHANGED <<env, feed, doneBefore, fetchVars, dedupVars, call>>

CrudNext ==
    \E r \in Reqs :
        \/ ListHandler(r)
        \/ ListResolves(r)
        \/ ListRejects(r)
        \/ \E fields \in GameBodies : CreateHandler(r, fields)
        \/ CreateResolves(r)
        \/ CreateRejects(r)
        \/ \E param \in IdParams : ByIdHandler(r, "delete", param, EntityA)
        \/ \E param \in IdParams, fields \in GameBodies :
               ByIdHandler(r, "update", param, fields)
        \/ DeleteFindResolves(r)
        \/ DeleteRejects(r)
        \/ DestroyResolves(r)
        \/ UpdateFindResolves(r)
        \/ UpdateFindRejects(r)
        \/ UpdateResolves(r)
        \/ UpdateRejects(r)
        \/ \E input \in SearchBodies : SearchHandler(r, input)
        \/ SearchResolves(r)
        \/ SearchRejects(r)

PopulateNext ==
    \E r \in Reqs :
        \/ PopulateHandler(r)
        \/ \E p \in Platforms : FetchSettles(r, p)
        \/ LookupResolves(r)
        \/ LookupRejects(r)
        \/ BulkCreateResolves(r)
        \/ BulkCreateRejects(r)

Next == PopulateNext

Spec == Init /\ [][Next]_vars

\* The whole server: every route, over a few feeds.
HttpFeedResponses ==
    {HttpResponse(404, <<>>), HttpResponse(200, << <<RecA>> >>),
     HttpResponse(200, << <<RecNoAppId>>, <<RecNoBundle>> >>)}

HttpInit ==
    /\ env \in Envs
    /\ feed \in [Platforms -> HttpFeedResponses]
    /\ store \in InitialStores
    /\ nextId = Len(store) + 1
    /\ InitRequests
    /\ call = IdleCall

HttpNext == PopulateNext \/ CrudNext

HttpSpec == HttpInit /\ [][HttpNext]_vars


\* ------------------------------------------- fetchAggregatedTopGames alone

FlattenItems == {RecA, RecB}
FlattenData == SeqsUpTo(SeqsUpTo(FlattenItems, MaxGroupLen), MaxGroups)
FlattenResponses ==
    {HttpResponse(200, d) : d \in FlattenData}
      \cup {HttpResponse(500, <<>>), NotArrayResponse, InvalidJsonResponse, NetworkError}

FlattenInit ==
    /\ env = [k \in {"JSON_URL_IOS", "JSON_URL_ANDROID"} |-> "https://feed.example/top.json"]
    /\ feed = [p \in Platforms |-> NetworkError]
    /\ store = <<>>
    /\ nextId = 1
    /\ InitRequests
    /\ call \in {[response |-> resp, state |-> "pending", value |-> <<>>] :
                   resp \in FlattenResponses}

\* The promise of one fetchAggregatedTopGames(url) call settles.
CallSettles ==
    /\ call.state = "pending"
    /\ LET out == FetchAggregatedTopGames(call.response)
       IN call' = [call EXCEPT !.state = out.state, !.value = out.value]
    /\ UNCHANGED <<env, feed, storeVars, route, pc, doneBefore, respVars, fetchVars,
                   dedupVars, crudVars>>

FlattenNext == CallSettles

FlattenSpec == FlattenInit /\ [][FlattenNext]_vars

\* ================================================================== claims

UrlUnset(k) == k \notin DOMAIN env \/ env[k] = ""
ConfigMissing == UrlUnset("JSON_URL_IOS") \/ UrlUnset("JSON_URL_ANDROID")

FeedFailed(p) ==
    \/ feed[p].kind # "http"
    \/ feed[p].status < 200 \/ feed[p].status > 299
    \/ ~feed[p].isJson
    \/ ~feed[p].isArray

RowsBy(r) == SelectSeq(store, LAMBDA row : row.by = r)

\* The positions of topGames[r] whose record has a non-empty bundle_id that
\* the lookup of r did not return.
KeptIndices(r) ==
    {i \in 1..Len(topGames[r]) :
        /\ "bundle_id" \in DOMAIN topGames[r][i]
        /\ topGames[r][i].bundle_id # ""
        /\ topGames[r][i].bundle_id \notin existingBundleIds[r]}

KeptWithoutAppId(r) == {i \in KeptIndices(r) : "app_id" \notin DOMAIN topGames[r][i]}

RECURSIVE Ascending(_)
Ascending(S) ==
    IF S = {} THEN <<>>
    ELSE LET m == CHOOSE x \in S : \A y \in S : x <= y
         IN <<m>> \o Ascending(S \ {m})

\* The dedup step of r has run to its end (its .map did not throw).
Emitted(r) == lookupOk[r] = "ok" /\ (pc[r] = "insert" \/ insertOk[r] # "none" \/ status[r] = 200)

CountTop(r, b) == Cardinality({i \in KeptIndices(r) : topGames[r][i].bundle_id = b})
CountNew(r, b) == Cardinality({i \in 1..Len(newGames[r]) : newGames[r][i].bundleId = b})
CountRows(r, b) == Cardinality({i \in 1..Len(store) : store[i].by = r /\ store[i].bundleId = b})
KeptBundles(r) == {topGames[r][i].bundle_id : i \in KeptIndices(r)}

\* Number of elements in the groups before group g of data.
GroupOffset(data, g) ==
    LET RECURSIVE Sum(_)
        Sum(k) == IF k = 0 THEN 0 ELSE Sum(k - 1) + Len(data[k])
    IN Sum(g - 1)

\* The elements of the groups of data, group after group.
GroupsInOrder(data) ==
    [k \in 1..GroupOffset(data, Len(data) + 1) |->
        LET g == CHOOSE h \in 1..Len(data) :
                   GroupOffset(data, h) < k /\ k <= GroupOffset(data, h + 1)
        IN data[g][k - GroupOffset(data, g)]]

\* C1: when either feed fetch fails (non-ok status, body that is not an array),
\* whatever the other fetch returns and in whatever order the two settle, the
\* population run is answered 500 { error: 'Failed to populate database' } as
\* soon as the failed fetch settles, and it issues no existing-key lookup and
\* no batch insert: no row of the store comes from it.
C1_FailedFetchFailsRun ==
    \A r \in Reqs :
        (route[r] = "populate" /\ ~ConfigMissing /\ \E p \in Platforms : FeedFailed(p)) =>
            /\ lookups[r] = 0 /\ inserts[r] = 0
            /\ RowsBy(r) = <<>>
            /\ pc[r] \in {"fetching", "done"}
            /\ (\E p \in Platforms : fetchState[r][p] = "rejected") => pc[r] = "done"
            /\ pc[r] = "done" =>
                 status[r] = 500 /\ body[r] = PopulateFailed /\ nresp[r] = 1

C1_Witness ==
    \E r \in Reqs :
        /\ pc[r] = "done" /\ status[r] = 500 /\ body[r] = PopulateFailed
        /\ fetchState[r]["ios"] = "rejected"
        /\ fetchState[r]["android"] = "resolved" /\ fetchValue[r]["android"] # <<>>

\* C2 as stated: once a population run has completed (answered 200 or 201),
\* a later run against the same feeds issues no batch insert and is answered
\* 200 { message: 'No new games to add.' }.
C2_Original ==
    \A r1 \in Reqs, r2 \in Reqs :
        (/\ route[r1] = "populate" /\ route[r2] = "populate"
         /\ r1 \in doneBefore[r2] /\ status[r1] \in {200, 201}
         /\ pc[r2] = "done") =>
            inserts[r2] = 0 /\ status[r2] = 200 /\ body[r2] = NoNewGames

\* C2 (amended): once a population run has completed successfully (answered
\* 200 or 201), a later run against the same feeds issues no batch insert and
\* adds no row; it is answered 200 { message: 'No new games to add.' } when
\* its existing-key lookup succeeds, and the generic 500 when the lookup fails.
C2_SecondRunAddsNothing ==
    \A r1 \in Reqs, r2 \in Reqs :
        (/\ route[r1] = "populate" /\ route[r2] = "populate"
         /\ r1 \in doneBefore[r2] /\ status[r1] \in {200, 201}) =>
            /\ inserts[r2] = 0
            /\ RowsBy(r2) = <<>>
            /\ lookupOk[r2] = "ok" =>
                 /\ newGames[r2] = <<>> /\ KeptIndices(r2) = {}
                 /\ pc[r2] = "done" /\ status[r2] = 200 /\ body[r2] = NoNewGames
            /\ (pc[r2] = "done" /\ lookupOk[r2] # "ok") =>
                 status[r2] = 500 /\ body[r2] = PopulateFailed

C2_Witness ==
    \E r1 \in Reqs, r2 \in Reqs :
        /\ r1 \in doneBefore[r2]
        /\ status[r1] = 201 /\ body[r1] = Added(2)
        /\ status[r2] = 200 /\ body[r2] = NoNewGames /\ inserts[r2] = 0

\* C3: every entity the dedup step emits (and every row a run inserts) comes
\* from a record whose bundle_id is present, non-empty and not among the
\* bundleId values the run's lookup returned; a record that is dropped never
\* makes the run fail.
C3_DedupNeverEmitsKnownOrEmpty ==
    \A r \in Reqs :
        lookupOk[r] = "ok" =>
            /\ \A i \in 1..Len(newGames[r]) :
                 /\ newGames[r][i].bundleId # ""
                 /\ newGames[r][i].bundleId \notin existingBundleIds[r]
                 /\ newGames[r][i].bundleId \in KeptBundles(r)
            /\ \A i \in 1..Len(store) :
                 store[i].by = r =>
                     store[i].bundleId # "" /\ store[i].bundleId \notin existingBundleIds[r]
            /\ (pc[r] = "done" /\ status[r] = 500 /\ insertOk[r] = "none") =>
                 KeptWithoutAppId(r) # {}

C3_Witness ==
    \E r \in Reqs :
        /\ status[r] = 201 /\ Len(newGames[r]) = 1
        /\ \E j, k \in 1..Len(topGames[r]) :
             /\ "bundle_id" \in DOMAIN topGames[r][j] /\ topGames[r][j].bundle_id = ""
             /\ "bundle_id" \in DOMAIN topGames[r][k]
                  /\ topGames[r][k].bundle_id \in existingBundleIds[r]

\* C4 as stated: when both fetches and the lookup succeed, an empty filtered
\* sequence gives no insert call and 200 { message }, and any other gives
\* exactly one insert call that persists every filtered entity and 201
\* { added: n }.
C4_Original ==
    \A r \in Reqs :
        (lookupOk[r] = "ok" /\ pc[r] = "done") =>
            IF KeptIndices(r) = {}
              THEN inserts[r] = 0 /\ status[r] = 200 /\ body[r] = NoNewGames
              ELSE /\ inserts[r] = 1
                   /\ status[r] = 201 /\ body[r] = Added(Cardinality(KeptIndices(r)))
                   /\ Len(RowsBy(r)) = Cardinality(KeptIndices(r))

\* C4 (amended): when both fetches and the lookup succeed: no record passing
\* the filter gives no insert call and 200 { message: 'No new games to add.' };
\* otherwise, if a record passing the filter has no app_id the mapping throws
\* and the run is answered the generic 500 without an insert call; else
\* exactly one batch-insert call is issued with all n filtered entities, and the
\* run is answered 201 { added: n } with the n rows persisted when that call
\* succeeds, the generic 500 with nothing persisted when it fails.
C4_ResultOfDedup ==
    \A r \in Reqs :
        lookupOk[r] = "ok" =>
            LET n == Cardinality(KeptIndices(r))
            IN IF n = 0
                 THEN /\ inserts[r] = 0 /\ RowsBy(r) = <<>>
                      /\ pc[r] = "done" /\ status[r] = 200 /\ body[r] = NoNewGames
                      /\ nresp[r] = 1
               ELSE IF KeptWithoutAppId(r) # {}
                 THEN /\ inserts[r] = 0 /\ RowsBy(r) = <<>>
                      /\ pc[r] = "done" /\ status[r] = 500 /\ body[r] = PopulateFailed
                      /\ nresp[r] = 1
               ELSE /\ inserts[r] = 1
                    /\ Len(newGames[r]) = n
                    /\ pc[r] \in {"insert", "done"}
                    /\ pc[r] = "insert" => nresp[r] = 0
                    /\ (pc[r] = "done" /\ insertOk[r] = "ok") =>
                         /\ status[r] = 201 /\ body[r] = Added(n) /\ nresp[r] = 1
                         /\ RowsBy(r) =
                              [i \in 1..n |->
                                 Row(newGames[r][i], RowsBy(r)[1].id + i - 1, r)]
                    /\ (pc[r] = "done" /\ insertOk[r] # "ok") =>
                         /\ insertOk[r] = "failed"
                         /\ status[r] = 500 /\ body[r] = PopulateFailed /\ nresp[r] = 1
                         /\ RowsBy(r) = <<>>

C4_Witness ==
    \E r \in Reqs :
        /\ status[r] = 201 /\ body[r] = Added(3) /\ inserts[r] = 1
        /\ Len(RowsBy(r)) = 3

\* C5: when JSON_URL_IOS or JSON_URL_ANDROID is unset or empty, a population
\* run is answered at once with HTTP 500 and an error field, having dispatched
\* no fetch and issued no store lookup and no insert.
C5_MissingUrlFailsBeforeAnyCall ==
    \A r \in Reqs :
        (route[r] = "populate" /\ ConfigMissing) =>
            /\ netCalls[r] = 0 /\ lookups[r] = 0 /\ inserts[r] = 0
            /\ \A p \in Platforms : fetchState[r][p] = "idle"
            /\ pc[r] = "done" /\ status[r] = 500 /\ nresp[r] = 1
            /\ "error" \in DOMAIN body[r]
            /\ RowsBy(r) = <<>>

C5_Witness ==
    \E r \in Reqs :
        /\ route[r] = "populate" /\ pc[r] = "done" /\ status[r] = 500
        /\ "JSON_URL_IOS" \notin DOMAIN env
        /\ "JSON_URL_ANDROID" \in DOMAIN env /\ env["JSON_URL_ANDROID"] # ""

\* C6: for a successful response whose body is an array of arrays, the call
\* resolves with a sequence whose length is the sum of the group lengths and
\* whose elements are the groups' elements, group after group, each group in
\* its own order.
C6_FlattenIsConcatenation ==
    (call.state # "pending" /\ call.state # "idle"
       /\ call.response.kind = "http" /\ call.response.ok /\ call.response.isJson
       /\ call.response.isArray) =>
        LET data == call.response.data
        IN /\ call.state = "resolved"
           /\ Len(call.value) = GroupOffset(data, Len(data) + 1)
           /\ \A g \in 1..Len(data) : \A i \in 1..Len(data[g]) :
                 call.value[GroupOffset(data, g) + i] = data[g][i]

C6_Witness ==
    /\ call.state = "resolved"
    /\ call.response.data = << <<RecA, RecB>>, <<>>, <<RecB>> >>
    /\ call.value = <<RecA, RecB, RecB>>

\* C7: two rows with the same bundleId inserted by different population runs
\* arise exactly from the race: each of the two runs did its lookup before the
\* other's insert and did not get that bundleId back from it.  (The witness
\* shows the state is reachable.)
C7_DoubleInsertOnlyByRace ==
    \A i \in 1..Len(store), j \in 1..Len(store) :
        (/\ store[i].by \in Reqs /\ store[j].by \in Reqs
         /\ store[i].by # store[j].by
         /\ store[i].bundleId = store[j].bundleId) =>
            /\ store[i].by \notin insertedBefore[store[j].by]
            /\ store[j].by \notin insertedBefore[store[i].by]
            /\ store[i].bundleId \notin existingBundleIds[store[i].by]
            /\ store[i].bundleId \notin existingBundleIds[store[j].by]

C7_Witness ==
    \E i \in 1..Len(store), j \in 1..Len(store) :
        /\ store[i].by \in Reqs /\ store[j].by \in Reqs
        /\ store[i].by # store[j].by
        /\ store[i].bundleId = store[j].bundleId
        /\ status[store[i].by] = 201 /\ status[store[j].by] = 201

\* C8: whichever fetch settles first, the sequence handed to the dedup step is
\* what the iOS fetch resolved with followed by what the Android fetch resolved
\* with, each being the feed's groups in order, and the emitted entities are
\* the kept records in that order.
C8_IosThenAndroid ==
    \A r \in Reqs :
        lookups[r] > 0 =>
            /\ topGames[r] = fetchValue[r]["ios"] \o fetchValue[r]["android"]
            /\ topGames[r] =
                 GroupsInOrder(feed["ios"].data) \o GroupsInOrder(feed["android"].data)
            /\ Emitted(r) =>
                 newGames[r] =
                   [k \in 1..Cardinality(KeptIndices(r)) |->
                      ToGameEntity(topGames[r][Ascending(KeptIndices(r))[k]])]

C8_Witness ==
    \E r \in Reqs :
        /\ settleOrder[r] = <<"android", "ios">>
        /\ pc[r] = "insert"
        /\ topGames[r] = <<RecA, RecB>>
        /\ fetchValue[r]["android"] = <<RecB>>
        /\ newGames[r] = <<ToGameEntity(RecA), ToGameEntity(RecB)>>

\* C9 as stated: when k records of the combined sequence share a non-empty
\* bundle_id that the store does not hold yet, the run inserts all k of them
\* and reports them in the added count.
C9_Original ==
    \A r \in Reqs :
        (lookupOk[r] = "ok" /\ pc[r] = "done") =>
            \A b \in KeptBundles(r) :
                /\ CountRows(r, b) = CountTop(r, b)
                /\ status[r] = 201 /\ body[r] = Added(Cardinality(KeptIndices(r)))

\* C9 (amended): the dedup step does not de-duplicate inside the batch: when k
\* records of the combined sequence share a non-empty bundle_id that the
\* lookup did not return, a run whose mapping does not throw emits all k of
\* them, and when its batch insert succeeds all k are inserted and counted in
\* { added }.
C9_NoDedupInsideBatch ==
    \A r \in Reqs :
        /\ Emitted(r) =>
             \A b \in KeptBundles(r) : CountNew(r, b) = CountTop(r, b)
        /\ status[r] = 201 =>
             /\ \A b \in KeptBundles(r) : CountRows(r, b) = CountTop(r, b)
             /\ body[r] = Added(Cardinality(KeptIndices(r)))

C9_Witness ==
    \E r \in Reqs :
        /\ status[r] = 201 /\ body[r] = Added(3)
        /\ CountTop(r, "a") = 3 /\ CountRows(r, "a") = 3
        /\ \E p \in Platforms : Len(fetchValue[r][p]) = 2

\* C10: every request whose handler has finished (no promise of it is pending
\* any more) has been sent exactly one response.
C10_ExactlyOneResponse ==
    \A r \in Reqs : pc[r] = "done" => nresp[r] = 1

====
